---- MODULE Spec2Model ----
(***************************************************************************)
(* Grid traversals of the maze visualizer: breadthFirstSearch,             *)
(* depthFirstSearch, depthFirstSearchTopDown and dijkstra, each modelled   *)
(* one loop iteration per step, with the callbacks they invoke recorded.   *)
(***************************************************************************)
EXTENDS Integers, Sequences, FiniteSets, TLC

VARIABLES
    walls,          \* Set of "row-col" keys of wall cells
    startPos,       \* {row, col} of the start cell
    targetPos,      \* {row, col} of the target cell
    algorithm,      \* the traversal that is running, or that ran last
    pc,             \* "idle" | "loop" | "reconstruct" | "path" | "return" | "thrown" | "done"
    frontier,       \* queue (BFS), stack (DFS) or priorityQueue (dijkstra)
    visited,        \* Set of keys
    parent,         \* Map key -> key (BFS, DFS)
    distances,      \* object key -> number (dijkstra)
    previous,       \* object key -> key or null (dijkstra)
    pathFound,
    visitedCount,
    path,           \* array of {row, col}
    pathIndex,      \* position of the for-of loop over path that calls updatePath
    visitedCalls,   \* the updateVisited(row, col) calls made so far, in order
    pathCalls,      \* the updatePath(row, col) calls made so far, in order
    expanded,       \* history: keys removed from the frontier and processed, in order
    skipped,        \* history: number of frontier entries discarded as already visited
    cancelRequested,\* the consumer has asked the run to stop
    results,        \* what each traversal returned
    size,           \* the gridSize argument of the run
    hasSink,        \* the run was given its callbacks (FALSE: they are undefined)
    genAlgorithm,   \* the maze generator that is running, or that ran last
    genPc,          \* "idle" | "loop" | "sleep" | "done" | "thrown"
    genWalls,       \* the generator's own walls Set
    genVisited,     \* Prim's: visited
    frontierCells,  \* Prim's: frontierCells
    mazeGenerationCells, \* the generator's own mazeGenerationCells Set
    generationSteps,
    regions,        \* recursive division: the recursiveDivide calls still to be made
    timers,         \* recursive division: the setTimeout callbacks that are pending
    genCellsEmitted,\* the argument of the last updateMazeGeneration call
    genResult,      \* what the generator returned
    isVisualizing,  \* App state
    isGeneratingMaze, \* App state
    dragMode,       \* App state: "null" | "start" | "target"
    lastEvent,      \* history: the App handler that was invoked last
    events,         \* history: the number of App handler invocations
    observed,       \* history: what the earlier traversals expanded and reported
    passages        \* history: the cells recursive division left open in its lines

vars == <<walls, startPos, targetPos, algorithm, pc, frontier, visited, parent,
          distances, previous, pathFound, visitedCount, path, pathIndex,
          visitedCalls, pathCalls, expanded, skipped, cancelRequested, results, size, hasSink,
          genAlgorithm, genPc, genWalls, genVisited, frontierCells,
          mazeGenerationCells, generationSteps, regions, timers,
          genCellsEmitted, genResult, isVisualizing, isGeneratingMaze,
          dragMode, lastEvent, events, observed, passages>>

grid == <<walls, startPos, targetPos>>

\* What a traversal leaves alone besides its own working state.
genVars == <<genAlgorithm, genPc, genWalls, genVisited, frontierCells,
             mazeGenerationCells, generationSteps, regions, timers,
             genCellsEmitted, genResult, passages>>

appVars == <<isVisualizing, isGeneratingMaze, dragMode, lastEvent, events>>

others == <<size, hasSink, genVars, appVars>>

(***************************************************************************)
(* Bounds of the model.                                                    *)
(***************************************************************************)
gridSize == 3

\* The most wall cells of a grid on which a cancelled run, or a run with an
\* invalid endpoint, is explored.
MaxFewWalls == 1

Rows == 0 .. (size - 1)
Cells == Rows \X Rows
OuterRows == (0 - 1) .. size
OuterCells == OuterRows \X OuterRows

(***************************************************************************)
(* Keys.  The code names a position by the string `${row}-${col}` and      *)
(* reads it back with split('-').map(Number).  A key is modelled by the    *)
(* pair the string is formatted from (the format is injective); reading it *)
(* back is not the identity on negative coordinates: "-1-0" splits into    *)
(* ["", "1", "0"] and "0--1" into ["0", "", "1"], and Number("") is 0.     *)
(***************************************************************************)
posStr(row, col) == <<row, col>>

SplitKey(key) ==
    IF key[1] < 0 THEN <<0, 0 - key[1]>>
    ELSE IF key[2] < 0 THEN <<key[1], 0>>
    ELSE <<key[1], key[2]>>

Null == << >>

Algorithms == <<"breadth-first", "depth-first", "depth-first-top-down", "dijkstra">>
AlgorithmSet == {Algorithms[i] : i \in 1 .. Len(Algorithms)}

NoResult == [returned |-> FALSE]

\* newRow > 0 and newCol > 0 where the code has >= 0
InBoundsFromOne(row, col) == row > 0 /\ row < size /\ col > 0 /\ col < size

\* newRow >= 0 && newRow < gridSize && newCol >= 0 && newCol < gridSize
InBounds(row, col) == row >= 0 /\ row < size /\ col >= 0 /\ col < size

directionsBFS == << <<0 - 1, 0>>, <<0, 1>>, <<1, 0>>, <<0, 0 - 1>> >>
\* down, right, left: the direction up left out
directionsDFSWithoutUp == << <<1, 0>>, <<0, 1>>, <<0, 0 - 1>> >>
directionsDFS == << <<1, 0>>, <<0, 1>>, <<0, 0 - 1>>, <<0 - 1, 0>> >>
directionsTopDown == << <<1, 0>>, <<0 - 1, 0>>, <<0, 1>>, <<0, 0 - 1>> >>
\* down, right, up, left where the code has up, right, down, left
directionsDijkstraDownFirst == << <<1, 0>>, <<0, 1>>, <<0 - 1, 0>>, <<0, 0 - 1>> >>
directionsDijkstra == << <<0 - 1, 0>>, <<0, 1>>, <<1, 0>>, <<0, 0 - 1>> >>

\* the directions taken first to last, where the code loops from the last down
NotReversed(s) == s

\* for (let i = directions.length - 1; i >= 0; i--): the order of the pushes
Reverse(s) == [i \in 1 .. Len(s) |-> s[Len(s) + 1 - i]]

\* The in-bounds neighbours of the cell a key reads back as, in the order the
\* loop over `order` meets them.
NeighborKeys(current, order) ==
    LET cell == SplitKey(current)
        all == [i \in 1 .. Len(order) |->
                   posStr(cell[1] + order[i][1], cell[2] + order[i][2])]
    IN  SelectSeq(all, LAMBDA k : InBounds(k[1], k[2]))

Lookup(map, key) == IF key \in DOMAIN map THEN map[key] ELSE Null

startPosStr == posStr(startPos[1], startPos[2])
targetPosStr == posStr(targetPos[1], targetPos[2])

Range(s) == {s[i] : i \in 1 .. Len(s)}

\* Stands for Infinity: larger than the length of any walk without repetition.
Infinity == size * size + 1

\* queue.pop() where the code has queue.shift()
QueueTakeLast(queue) ==
    [item |-> queue[Len(queue)], rest |-> SubSeq(queue, 1, Len(queue) - 1)]

\* queue.shift(): the removed element and what is left
QueueShift(queue) == [item |-> Head(queue), rest |-> Tail(queue)]

\* stack.pop(): the removed element and what is left
StackPop(stack) ==
    [item |-> stack[Len(stack)], rest |-> SubSeq(stack, 1, Len(stack) - 1)]

\* !visited.has(newPos) alone, the wall test left out
OpenThroughWalls(newPos, seen) == newPos \notin seen

\* !walls.has(newPos) alone: a position already visited is taken again
OpenAgain(newPos, seen) == newPos \notin walls

\* !walls.has(newPos) && !visited.has(newPos)
Open(newPos, seen) == newPos \notin walls /\ newPos \notin seen

\* parent.set(newPos, current) for every key of newKeys
SetParent(map, newKeys, current) ==
    [k \in DOMAIN map \cup newKeys |-> IF k \in newKeys THEN current ELSE map[k]]

\* parent.set(newPos, current) without the parent.has test: the last push wins
SetParentAgain(map, newKeys, current) ==
    [k \in DOMAIN map \cup newKeys |-> IF k \in newKeys THEN current ELSE map[k]]

\* if (!parent.has(newPos)) parent.set(newPos, current) for every key of newKeys
SetParentIfAbsent(map, newKeys, current) ==
    [k \in DOMAIN map \cup newKeys |-> IF k \in DOMAIN map THEN map[k] ELSE current]

\* priorityQueue.sort((a, b) => a.distance - b.distance): a stable sort, so
\* entries of equal distance keep their insertion order.
SortByDistance(queue) ==
    LET Rank(i) ==
            Cardinality({j \in 1 .. Len(queue) :
                            \/ queue[j].distance < queue[i].distance
                            \/ queue[j].distance = queue[i].distance /\ j <= i})
    IN  [r \in 1 .. Len(queue) |->
            queue[CHOOSE i \in 1 .. Len(queue) : Rank(i) = r]]

\* The walk back from target to start through a parent map: path.unshift of
\* each key read back as {row, col}.  A missing or null parent makes the next
\* current.split throw; a parent cycle would never leave the loop.
RECURSIVE WalkBack(_, _, _, _)
WalkBack(map, current, acc, fuel) ==
    IF current = startPosStr THEN [outcome |-> "ok", path |-> acc]
    ELSE IF current = Null THEN [outcome |-> "throws", path |-> acc]
    ELSE IF fuel = 0 THEN [outcome |-> "loops", path |-> acc]
    ELSE WalkBack(map, Lookup(map, current), <<SplitKey(current)>> \o acc, fuel - 1)

\* the walk back started at the target's parent, so that target is left out
ReconstructPathWithoutTarget(map) ==
    IF targetPosStr = startPosStr THEN [outcome |-> "ok", path |-> << >>]
    ELSE WalkBack(map, Lookup(map, targetPosStr), << >>, Cardinality(DOMAIN map) + 1)

\* path.push where the code has path.unshift: the path from target to start
ReconstructPathPushed(map) ==
    LET walk == WalkBack(map, targetPosStr, << >>, Cardinality(DOMAIN map) + 1)
    IN  [outcome |-> walk.outcome, path |-> Reverse(walk.path)]

ReconstructPath(map) ==
    WalkBack(map, targetPosStr, << >>, Cardinality(DOMAIN map) + 1)

Returned(found, cells, count) ==
    [returned |-> TRUE, thrown |-> FALSE, pathFound |-> found, path |-> cells,
     visitedCount |-> count, pathLength |-> Len(cells)]

Thrown == [returned |-> FALSE, thrown |-> TRUE]

(***************************************************************************)
(* Initial states: a grid, and no run made yet.                            *)
(***************************************************************************)
NoRun ==
    /\ algorithm = "none"
    /\ pc = "idle"
    /\ frontier = << >>
    /\ visited = {}
    /\ parent = << >>
    /\ distances = << >>
    /\ previous = << >>
    /\ pathFound = FALSE
    /\ visitedCount = 0
    /\ path = << >>
    /\ pathIndex = 1
    /\ visitedCalls = << >>
    /\ pathCalls = << >>
    /\ expanded = << >>
    /\ skipped = 0
    /\ cancelRequested = FALSE
    /\ results = [a \in AlgorithmSet |-> NoResult]
    /\ genAlgorithm = "none"
    /\ genPc = "idle"
    /\ genWalls = {}
    /\ genVisited = {}
    /\ frontierCells = << >>
    /\ mazeGenerationCells = {}
    /\ generationSteps = 0
    /\ regions = << >>
    /\ timers = {}
    /\ genCellsEmitted = {}
    /\ genResult = NoResult
    /\ isVisualizing = FALSE
    /\ isGeneratingMaze = FALSE
    /\ dragMode = "null"
    /\ lastEvent = "none"
    /\ events = 0
    /\ observed = [a \in AlgorithmSet |-> [expanded |-> << >>, visitedCalls |-> << >>]]
    /\ passages = {}

Init ==
    /\ size = gridSize
    /\ hasSink = TRUE
    /\ walls \in SUBSET Cells
    /\ startPos \in Cells \ walls
    /\ targetPos \in Cells \ walls
    /\ NoRun

\* The runs of one behaviour are made on the same grid, one after the other,
\* each traversal once; every run allocates its working state afresh.
CanStart(a) ==
    /\ pc \in {"idle", "done"}
    /\ \E i \in 1 .. Len(Algorithms) :
          /\ Algorithms[i] = a
          /\ \A j \in 1 .. Len(Algorithms) :
                (results[Algorithms[j]] # NoResult) <=> (j < i)

FreshRun(a) ==
    /\ algorithm' = a
    /\ parent' = << >>
    /\ pathFound' = FALSE
    /\ path' = << >>
    /\ pathIndex' = 1
    /\ visitedCalls' = << >>
    /\ pathCalls' = << >>
    /\ expanded' = << >>
    /\ skipped' = 0
    /\ cancelRequested' = FALSE
    /\ observed' = IF algorithm \in AlgorithmSet
                   THEN [observed EXCEPT ![algorithm] =
                            [expanded |-> expanded, visitedCalls |-> visitedCalls]]
                   ELSE observed
    /\ UNCHANGED grid

LoopOrExit(rest) == IF rest = << >> THEN "reconstruct" ELSE "loop"

(***************************************************************************)
(* breadthFirstSearch                                                      *)
(***************************************************************************)
BeginBFS ==
    /\ FreshRun("breadth-first")
    /\ frontier' = <<startPosStr>>
    /\ visited' = {startPosStr}
    /\ visitedCount' = 0
    /\ pc' = "loop"
    /\ UNCHANGED <<distances, previous, results>>

StartBFS == CanStart("breadth-first") /\ BeginBFS /\ UNCHANGED others

BFSLoop ==
    /\ pc = "loop"
    /\ algorithm = "breadth-first"
    /\ LET current == QueueShift(frontier).item
           rest == QueueShift(frontier).rest
           found == SelectSeq(NeighborKeys(current, directionsBFS),
                              LAMBDA k : Open(k, visited))
       IN  /\ visitedCount' = visitedCount + 1
           /\ expanded' = Append(expanded, current)
           /\ IF current = targetPosStr
              THEN /\ pathFound' = TRUE
                   /\ frontier' = rest
                   /\ pc' = "reconstruct"
                   /\ UNCHANGED <<visited, parent, visitedCalls>>
              ELSE /\ visitedCalls' = IF hasSink /\ current # startPosStr
                                      THEN Append(visitedCalls, SplitKey(current))
                                      ELSE visitedCalls
                   /\ frontier' = rest \o found
                   /\ visited' = visited \cup Range(found)
                   /\ parent' = SetParent(parent, Range(found), current)
                   /\ pc' = LoopOrExit(rest \o found)
                   /\ UNCHANGED pathFound
    /\ UNCHANGED <<grid, others, observed, algorithm, distances, previous, path, pathIndex,
                   pathCalls, skipped, cancelRequested, results>>

(***************************************************************************)
(* depthFirstSearch and depthFirstSearchTopDown                            *)
(***************************************************************************)
BeginDFS ==
    /\ FreshRun("depth-first")
    /\ frontier' = <<startPosStr>>
    /\ visited' = {}
    /\ visitedCount' = 0
    /\ pc' = "loop"
    /\ UNCHANGED <<distances, previous, results>>

StartDFS == CanStart("depth-first") /\ BeginDFS /\ UNCHANGED others

BeginTopDown ==
    /\ FreshRun("depth-first-top-down")
    /\ visited' = {}
    /\ visitedCount' = 0
    /\ IF startPosStr = targetPosStr
       THEN /\ frontier' = << >>
            /\ pc' = "done"
            /\ results' = [results EXCEPT
                   !["depth-first-top-down"] = Returned(TRUE, <<startPos>>, 1)]
       ELSE /\ frontier' = <<startPosStr>>
            /\ pc' = "loop"
            /\ UNCHANGED results
    /\ UNCHANGED <<distances, previous>>

StartTopDown ==
    CanStart("depth-first-top-down") /\ BeginTopDown /\ UNCHANGED others

DFSIteration(order) ==
    LET current == StackPop(frontier).item
        rest == StackPop(frontier).rest
        seen == visited \cup {current}
        pushed == SelectSeq(NeighborKeys(current, Reverse(order)),
                            LAMBDA k : Open(k, seen))
    IN  IF current \in visited
        THEN /\ frontier' = rest
             /\ skipped' = skipped + 1
             /\ pc' = LoopOrExit(rest)
             /\ UNCHANGED <<visited, visitedCount, expanded, pathFound, parent,
                            visitedCalls>>
        ELSE /\ visited' = seen
             /\ visitedCount' = visitedCount + 1
             /\ expanded' = Append(expanded, current)
             /\ UNCHANGED skipped
             /\ IF current = targetPosStr
                THEN /\ pathFound' = TRUE
                     /\ frontier' = rest
                     /\ pc' = "reconstruct"
                     /\ UNCHANGED <<parent, visitedCalls>>
                ELSE /\ visitedCalls' = IF hasSink /\ current # startPosStr
                                        THEN Append(visitedCalls, SplitKey(current))
                                        ELSE visitedCalls
                     /\ frontier' = rest \o pushed
                     /\ parent' = SetParentIfAbsent(parent, Range(pushed), current)
                     /\ pc' = LoopOrExit(rest \o pushed)
                     /\ UNCHANGED pathFound

DFSLoop ==
    /\ pc = "loop"
    /\ algorithm = "depth-first"
    /\ DFSIteration(directionsDFS)
    /\ UNCHANGED <<grid, others, observed, algorithm, distances, previous, path, pathIndex,
                   pathCalls, cancelRequested, results>>

TopDownLoop ==
    /\ pc = "loop"
    /\ algorithm = "depth-first-top-down"
    /\ DFSIteration(directionsTopDown)
    /\ UNCHANGED <<grid, others, observed, algorithm, distances, previous, path, pathIndex,
                   pathCalls, cancelRequested, results>>

(***************************************************************************)
(* dijkstra                                                                *)
(***************************************************************************)
BeginDijkstra ==
    /\ FreshRun("dijkstra")
    /\ visited' = {}
    /\ visitedCount' = 0
    /\ IF startPosStr = targetPosStr
       THEN /\ frontier' = << >>
            /\ distances' = << >>
            /\ previous' = << >>
            /\ pc' = "done"
            /\ results' = [results EXCEPT
                   !["dijkstra"] = Returned(TRUE, <<startPos>>, 1)]
       ELSE /\ distances' = [k \in Cells \cup {startPosStr} |->
                                IF k = startPosStr THEN 0 ELSE Infinity]
            /\ previous' = [k \in Cells |-> Null]
            /\ frontier' = <<[pos |-> startPosStr, distance |-> 0]>>
            /\ pc' = "loop"
            /\ UNCHANGED results

StartDijkstra == CanStart("dijkstra") /\ BeginDijkstra /\ UNCHANGED others

\* getUnvisitedNeighbors(currentPos), given the visited set
getUnvisitedNeighbors(currentPos, seen) ==
    SelectSeq(NeighborKeys(currentPos, directionsDijkstra),
              LAMBDA k : Open(k, seen))

\* newDistance <= distances[neighborPos]
ShorterOrEqual(newDistance, neighborPos) == newDistance <= distances[neighborPos]

\* if (newDistance < distances[neighborPos])
Shorter(newDistance, neighborPos) == newDistance < distances[neighborPos]

\* One iteration of the while loop.  Its constants (the entry shifted off the
\* sorted queue, the neighbours to relax) are bound once, as the code
\* computes them once.
DijkstraLoop ==
    /\ pc = "loop"
    /\ algorithm = "dijkstra"
    /\ \E shifted \in {QueueShift(SortByDistance(frontier))} :
       \E currentPos \in {shifted.item.pos}, rest \in {shifted.rest} :
       \E seen \in {visited \cup {currentPos}},
          newDistance \in {distances[currentPos] + 1} :
       \E relaxed \in {SelectSeq(getUnvisitedNeighbors(currentPos, seen),
                                 LAMBDA k : Shorter(newDistance, k))} :
           IF currentPos \in visited
           THEN /\ frontier' = rest
                /\ skipped' = skipped + 1
                /\ pc' = LoopOrExit(rest)
                /\ UNCHANGED <<visited, visitedCount, expanded, visitedCalls,
                               distances, previous>>
           ELSE /\ visited' = seen
                /\ visitedCount' = visitedCount + 1
                /\ expanded' = Append(expanded, currentPos)
                /\ visitedCalls' = IF hasSink /\ currentPos # startPosStr
                                   THEN Append(visitedCalls, SplitKey(currentPos))
                                   ELSE visitedCalls
                /\ UNCHANGED skipped
                /\ IF currentPos = targetPosStr
                   THEN /\ frontier' = rest
                        /\ pc' = "reconstruct"
                        /\ UNCHANGED <<distances, previous>>
                   ELSE /\ distances' = [k \in DOMAIN distances |->
                               IF k \in Range(relaxed) THEN newDistance
                               ELSE distances[k]]
                        /\ previous' = [k \in DOMAIN previous |->
                               IF k \in Range(relaxed) THEN currentPos
                               ELSE previous[k]]
                        /\ frontier' = rest \o
                               [i \in 1 .. Len(relaxed) |->
                                   [pos |-> relaxed[i], distance |-> newDistance]]
                        /\ pc' = LoopOrExit(rest \o relaxed)
    /\ UNCHANGED <<grid, others, observed, algorithm, parent, pathFound, path, pathIndex,
                   pathCalls, cancelRequested, results>>

(***************************************************************************)
(* The end of every traversal: the path is rebuilt, updatePath is called   *)
(* for each of its cells, and the result is returned.                      *)
(***************************************************************************)
\* dijkstra: distances[targetPosStr] !== Infinity (a key the object never got
\* reads as undefined, which differs from Infinity); the others: the flag.
FoundAtExit ==
    IF algorithm = "dijkstra"
    THEN (targetPosStr \notin DOMAIN distances) \/ distances[targetPosStr] # Infinity
    ELSE pathFound

ParentMap == IF algorithm = "dijkstra" THEN previous ELSE parent

Reconstruct ==
    /\ pc = "reconstruct"
    /\ pathFound' = FoundAtExit
    /\ LET walk == ReconstructPath(ParentMap)
       IN  IF ~FoundAtExit
           THEN /\ path' = << >>
                /\ pc' = "return"
                /\ UNCHANGED results
           ELSE IF walk.outcome = "ok"
           THEN /\ path' = walk.path
                /\ pc' = IF walk.path = << >> \/ ~hasSink THEN "return" ELSE "path"
                /\ UNCHANGED results
           ELSE /\ path' = walk.path
                /\ pc' = "done"
                /\ results' = [results EXCEPT ![algorithm] = Thrown]
    /\ UNCHANGED <<grid, others, observed, algorithm, frontier, visited, parent, distances,
                   previous, visitedCount, pathIndex, visitedCalls, pathCalls,
                   expanded, skipped, cancelRequested>>

PathStep ==
    /\ pc = "path"
    /\ pathCalls' = Append(pathCalls, path[pathIndex])
    /\ pathIndex' = pathIndex + 1
    /\ pc' = IF pathIndex = Len(path) THEN "return" ELSE "path"
    /\ UNCHANGED <<grid, others, observed, algorithm, frontier, visited, parent, distances,
                   previous, pathFound, visitedCount, path, visitedCalls,
                   expanded, skipped, cancelRequested, results>>

Return ==
    /\ pc = "return"
    /\ results' = [results EXCEPT
           ![algorithm] = Returned(pathFound, path, visitedCount)]
    /\ pc' = "done"
    /\ UNCHANGED <<grid, others, observed, algorithm, frontier, visited, parent, distances,
                   previous, pathFound, visitedCount, path, pathIndex,
                   visitedCalls, pathCalls, expanded, skipped, cancelRequested>>

Next ==
    \/ StartBFS
    \/ BFSLoop
    \/ StartDFS
    \/ DFSLoop
    \/ StartTopDown
    \/ TopDownLoop
    \/ StartDijkstra
    \/ DijkstraLoop
    \/ Reconstruct
    \/ PathStep
    \/ Return

Spec == Init /\ [][Next]_vars

(***************************************************************************)
(* A consumer that asks a running traversal to stop.  The traversals take  *)
(* no cancellation predicate, so nothing in them reads the request.        *)
(***************************************************************************)
RequestCancel ==
    /\ pc = "loop"
    /\ ~cancelRequested
    /\ cancelRequested' = TRUE
    /\ UNCHANGED <<grid, others, observed, algorithm, pc, frontier, visited, parent, distances,
                   previous, pathFound, visitedCount, path, pathIndex,
                   visitedCalls, pathCalls, expanded, skipped, results>>

FewWalls == {w \in SUBSET Cells : Cardinality(w) <= MaxFewWalls}

InitCancel ==
    /\ size = gridSize
    /\ hasSink = TRUE
    /\ walls \in FewWalls
    /\ startPos \in Cells \ walls
    /\ targetPos \in Cells \ walls
    /\ NoRun

NextCancel == Next \/ RequestCancel

SpecCancel == InitCancel /\ [][NextCancel]_vars

(***************************************************************************)
(* Runs whose start or target is out of bounds or on a wall cell.          *)
(***************************************************************************)
InvalidEndpoint ==
    \/ startPosStr \notin Cells
    \/ targetPosStr \notin Cells
    \/ startPosStr \in walls
    \/ targetPosStr \in walls

InitInvalid ==
    /\ size = gridSize
    /\ hasSink = TRUE
    /\ walls \in FewWalls
    /\ startPos \in OuterCells
    /\ targetPos \in OuterCells
    /\ InvalidEndpoint
    /\ NoRun

SpecInvalid == InitInvalid /\ [][Next]_vars

(***************************************************************************)
(* What the claims are stated with.                                        *)
(***************************************************************************)
Abs(n) == IF n < 0 THEN 0 - n ELSE n

Adjacent(a, b) == Abs(a[1] - b[1]) + Abs(a[2] - b[2]) = 1

Manhattan == Abs(startPos[1] - targetPos[1]) + Abs(startPos[2] - targetPos[2])

\* The least number of 4-adjacent steps from start to cell over non-wall
\* cells, by layers; -1 when there is no such walk.
RECURSIVE StepsTo(_, _, _, _)
StepsTo(cell, seen, front, n) ==
    IF cell \in front THEN n
    ELSE IF front = {} THEN 0 - 1
    ELSE StepsTo(cell, seen \cup front,
                 {c \in Cells \ (walls \cup seen \cup front) :
                     \E d \in front : Adjacent(c, d)},
                 n + 1)

MinSteps == StepsTo(targetPosStr, {}, {startPosStr}, 0)

TargetReachable == MinSteps >= 0

ValidEndpoints ==
    /\ startPosStr \in Cells \ walls
    /\ targetPosStr \in Cells \ walls

Finished(a) == pc = "done" /\ algorithm = a

Ran(a) == results[a] # NoResult

NoRepeat(s) == \A i, j \in 1 .. Len(s) : s[i] = s[j] => i = j

\* C1: with distinct valid endpoints every traversal returns pathFound exactly
\* when target is reachable from start over non-wall cells; when it is not, the
\* path is empty, pathLength is 0 and updatePath is never called.
C1_FoundIffReachable ==
    (ValidEndpoints /\ startPos # targetPos) =>
        /\ pathCalls # << >> => TargetReachable
        /\ \A a \in AlgorithmSet :
              Finished(a) =>
                  /\ results[a].returned
                  /\ results[a].pathFound <=> TargetReachable
                  /\ ~TargetReachable =>
                        /\ results[a].path = << >>
                        /\ results[a].pathLength = 0
                        /\ pathCalls = << >>

C1_Witness ==
    /\ Finished("dijkstra")
    /\ startPos # targetPos
    /\ ~TargetReachable
    /\ visitedCount > 1
    /\ \A a \in AlgorithmSet :
          results[a].returned /\ ~results[a].pathFound /\ results[a].path = << >>

\* C2: a path breadthFirstSearch finds has the least number of steps any
\* wall-free walk from start to target has.
C2_BFSShortest ==
    (Finished("breadth-first") /\ results["breadth-first"].returned
        /\ results["breadth-first"].pathFound) =>
        results["breadth-first"].pathLength = MinSteps

C2_Witness ==
    /\ Finished("breadth-first")
    /\ results["breadth-first"].pathFound
    /\ results["breadth-first"].pathLength = MinSteps
    /\ MinSteps > Manhattan

\* C3: without walls and with start # target, breadthFirstSearch returns the
\* Manhattan distance between start and target as pathLength.
C3_BFSManhattan ==
    (Finished("breadth-first") /\ walls = {} /\ startPos # targetPos) =>
        /\ results["breadth-first"].returned
        /\ results["breadth-first"].pathLength = Manhattan

C3_Witness ==
    /\ Finished("breadth-first")
    /\ walls = {}
    /\ Manhattan = 2 * (size - 1)
    /\ results["breadth-first"].pathLength = Manhattan

\* C4: when breadthFirstSearch finds a path, its pathLength is at most the
\* pathLength of depthFirstSearch and of depthFirstSearchTopDown on that input.
C4_BFSNotLongerThanDFS ==
    (/\ Ran("breadth-first") /\ Ran("depth-first") /\ Ran("depth-first-top-down")
     /\ results["breadth-first"].returned
     /\ results["breadth-first"].pathFound) =>
        /\ results["depth-first"].returned
        /\ results["depth-first-top-down"].returned
        /\ results["breadth-first"].pathLength <= results["depth-first"].pathLength
        /\ results["breadth-first"].pathLength
              <= results["depth-first-top-down"].pathLength

C4_Witness ==
    /\ Finished("depth-first-top-down")
    /\ results["breadth-first"].pathFound
    /\ results["breadth-first"].pathLength < results["depth-first"].pathLength
    /\ results["breadth-first"].pathLength
          < results["depth-first-top-down"].pathLength
    /\ walls # {}

\* C5: on every input dijkstra and breadthFirstSearch report the same
\* pathFound and the same pathLength.
C5_DijkstraSameAsBFS ==
    (Ran("breadth-first") /\ Ran("dijkstra")) =>
        /\ results["breadth-first"].returned
        /\ results["dijkstra"].returned
        /\ results["dijkstra"].pathFound = results["breadth-first"].pathFound
        /\ results["dijkstra"].pathLength = results["breadth-first"].pathLength

\* C6: when start equals target every traversal returns pathFound = TRUE,
\* visitedCount <= 1, the path made of the start cell alone, pathLength = 1,
\* and calls updateVisited not once.
C6_StartIsTarget ==
    \A a \in AlgorithmSet :
        (Finished(a) /\ startPos = targetPos) =>
            /\ results[a].returned
            /\ results[a].pathFound
            /\ results[a].visitedCount <= 1
            /\ results[a].path = <<startPos>>
            /\ results[a].pathLength = 1
            /\ visitedCalls = << >>

IsPrefix(s, t) == Len(s) <= Len(t) /\ s = SubSeq(t, 1, Len(s))

\* C7: on success with start # target the path returned is a walk from start
\* to target: its first cell is adjacent to start, each cell is adjacent to the
\* one before, no cell is a wall, the start or a repetition, the last cell is
\* target, and updatePath is called once per path cell in that order.
C7_PathIsWalk ==
    /\ IsPrefix(pathCalls, path)
    /\ \A a \in AlgorithmSet :
          (/\ Finished(a) /\ startPos # targetPos
           /\ results[a].returned /\ results[a].pathFound) =>
              LET p == results[a].path
              IN  /\ Len(p) >= 1
                  /\ Adjacent(p[1], startPos)
                  /\ \A i \in 1 .. Len(p) - 1 : Adjacent(p[i], p[i + 1])
                  /\ \A i \in 1 .. Len(p) :
                        p[i] \in Cells \ walls /\ p[i] # startPos
                  /\ NoRepeat(p)
                  /\ p[Len(p)] = targetPos
                  /\ results[a].pathLength = Len(p)
                  /\ pathCalls = p

C7_Witness ==
    /\ Finished("depth-first")
    /\ startPos # targetPos
    /\ results["depth-first"].pathFound
    /\ Len(results["depth-first"].path) > MinSteps
    /\ walls # {}
    /\ pathCalls = results["depth-first"].path

\* The keys of a sequence other than start, each read back as (row, col).
CellsOtherThanStart(keys) ==
    LET kept == SelectSeq(keys, LAMBDA k : k # startPosStr)
    IN  [i \in 1 .. Len(kept) |-> SplitKey(kept[i])]

\* C8: updateVisited is called exactly once for each position other than start
\* that is removed from the frontier and expanded, target included, in the
\* order of removal, and never for start.
C8_VisitedCallsFollowRemoval ==
    visitedCalls = CellsOtherThanStart(expanded)

\* C9: once a cancellation request is pending between expansions, the running
\* traversal expands nothing more, calls updatePath no more, and what it
\* returns has pathFound = FALSE.
C9_CancelStopsRun ==
    [][(cancelRequested /\ pc \in {"loop", "reconstruct", "path", "return"}) =>
          /\ expanded' = expanded
          /\ pathCalls' = pathCalls
          /\ pc' = "done" => ~results'[algorithm].pathFound]_vars

\* C10: with start or target out of bounds or on a wall cell a traversal
\* expands no cell, calls neither updateVisited nor updatePath, and returns
\* pathFound = FALSE.
C10_InvalidEndpointRefused ==
    InvalidEndpoint =>
        /\ expanded = << >>
        /\ visitedCalls = << >>
        /\ pathCalls = << >>
        /\ \A a \in AlgorithmSet :
              Finished(a) => results[a].returned /\ ~results[a].pathFound

(***************************************************************************)
(* The two example runs on a 5x5 grid: no walls from (0,0) to (4,4), and a *)
(* wall column at col 2, rows 0 to 3, from (0,0) to (0,4).                 *)
(***************************************************************************)
ExampleWalls == {posStr(0, 2), posStr(1, 2), posStr(2, 2), posStr(3, 2)}

InitExample ==
    /\ size = 5
    /\ hasSink = TRUE
    /\ walls \in {{}, ExampleWalls}
    /\ startPos = <<0, 0>>
    /\ targetPos = IF walls = {} THEN <<4, 4>> ELSE <<0, 4>>
    /\ NoRun

SpecExample == InitExample /\ [][Next]_vars

BFSResult == results["breadth-first"]

\* C11 as stated: on the 5x5 grid with the wall column, breadthFirstSearch
\* returns pathFound=true, a path passing through (4,2) and pathLength=8.
C11_DetourLength8 ==
    (walls = ExampleWalls /\ Ran("breadth-first")) =>
        /\ BFSResult.pathFound
        /\ <<4, 2>> \in Range(BFSResult.path)
        /\ BFSResult.pathLength = 8

\* C11 amended: on that grid breadthFirstSearch returns pathFound=true and a
\* path passing through (4,2) whose pathLength is 12, the least number of
\* steps from (0,0) to (0,4) around the wall column.
C11_DetourLength12 ==
    (walls = ExampleWalls /\ Ran("breadth-first")) =>
        /\ BFSResult.pathFound
        /\ <<4, 2>> \in Range(BFSResult.path)
        /\ BFSResult.pathLength = 12
        /\ MinSteps = 12

C11_Witness ==
    /\ walls = ExampleWalls
    /\ Finished("breadth-first")
    /\ BFSResult.returned
    /\ BFSResult.visitedCount = 21

(***************************************************************************)
(* Maze generation.  updateWalls(set) hands the consumer a wall set, kept  *)
(* in walls; updateMazeGeneration(set) hands it the cells to highlight,    *)
(* kept in genCellsEmitted.  Math.random is a free choice.                 *)
(***************************************************************************)
\* The largest grid a maze is generated on.
MaxMazeSize == 7

run == <<algorithm, pc, frontier, visited, parent, distances, previous,
         pathFound, visitedCount, path, pathIndex, visitedCalls, pathCalls,
         expanded, skipped, cancelRequested, results, observed>>

startRow == 1
startCol == 1
startCell == posStr(startRow, startCol)

\* The key 'generation_complete', which names no cell.
GenerationComplete == <<"generation_complete">>

\* newRow > 0 && newRow < gridSize - 1 && newCol > 0 && newCol < gridSize - 1
InsideBorder(row, col) ==
    row > 0 /\ row < size - 1 /\ col > 0 /\ col < size - 1

TwoSteps(row, col) ==
    << <<row - 2, col>>, <<row + 2, col>>, <<row, col - 2>>, <<row, col + 2>> >>

RECURSIVE PushNew(_, _, _, _)
PushNew(list, candidates, seen, unique) ==
    IF candidates = << >> THEN list
    ELSE LET c == Head(candidates)
             push == /\ InsideBorder(c[1], c[2])
                     /\ c \notin seen
                     /\ (unique => c \notin Range(list))
         IN  PushNew(IF push THEN Append(list, c) ELSE list,
                     Tail(candidates), seen, unique)

\* the frontierCells.some(...) test left out: a cell can be pushed twice
addNeighborsToFrontierAgain(list, row, col, seen) ==
    PushNew(list, TwoSteps(row, col), seen, FALSE)

\* addNeighborsToFrontier(row, col): frontierCells after the call
addNeighborsToFrontier(list, row, col, seen) ==
    PushNew(list, TwoSteps(row, col), seen, TRUE)

\* the picked cell read without being removed from frontierCells
KeepPicked(list, randomIndex) == list

\* frontierCells.splice(randomIndex, 1): what is left
Splice(list, randomIndex) ==
    SubSeq(list, 1, randomIndex - 1) \o SubSeq(list, randomIndex + 1, Len(list))

PrimsResult(wallSet, steps, seen) ==
    [returned |-> TRUE, thrown |-> FALSE, walls |-> wallSet, passages |-> {},
     generationSteps |-> steps, visitedCells |-> Cardinality(seen)]

\* generateMazeWithPrims up to its first await; calling an undefined
\* updateWalls throws a TypeError out of the generator.
BeginPrims ==
    /\ genAlgorithm' = "prims"
    /\ genWalls' = {}
    /\ genVisited' = {startCell}
    /\ mazeGenerationCells' = {startCell}
    /\ frontierCells' = addNeighborsToFrontier(<< >>, startRow, startCol, {startCell})
    /\ generationSteps' = 0
    /\ IF hasSink
       THEN /\ walls' = {}
            /\ genCellsEmitted' = {startCell}
            /\ genPc' = "loop"
            /\ UNCHANGED genResult
       ELSE /\ genPc' = "thrown"
            /\ genResult' = Thrown
            /\ UNCHANGED <<walls, genCellsEmitted>>
    /\ passages' = {}
    /\ UNCHANGED <<regions, timers>>

StartPrims ==
    /\ genPc = "idle"
    /\ BeginPrims
    /\ UNCHANGED <<startPos, targetPos, run, size, hasSink, appVars>>

PrimsLoop ==
    /\ genPc = "loop"
    /\ genAlgorithm = "prims"
    /\ frontierCells # << >>
    /\ \E randomIndex \in 1 .. Len(frontierCells) :
          LET cell == frontierCells[randomIndex]
              rest == Splice(frontierCells, randomIndex)
              visitedNeighbors ==
                  SelectSeq(TwoSteps(cell[1], cell[2]),
                            LAMBDA n : InBounds(n[1], n[2]) /\ n \in genVisited)
          IN  IF visitedNeighbors = << >>
              THEN /\ frontierCells' = rest
                   /\ UNCHANGED <<genVisited, mazeGenerationCells,
                                  generationSteps, walls, genCellsEmitted>>
              ELSE \E pick \in 1 .. Len(visitedNeighbors) :
                      LET neighbor == visitedNeighbors[pick]
                          wallKey == posStr((cell[1] + neighbor[1]) \div 2,
                                            (cell[2] + neighbor[2]) \div 2)
                          seen == genVisited \cup {cell, wallKey}
                          cells == mazeGenerationCells \cup {cell, wallKey}
                      IN  /\ genVisited' = seen
                          /\ mazeGenerationCells' = cells
                          /\ frontierCells' =
                                 addNeighborsToFrontier(rest, cell[1], cell[2], seen)
                          /\ generationSteps' = generationSteps + 1
                          /\ IF (generationSteps + 1) % 3 = 0
                             THEN /\ walls' = genWalls
                                  /\ genCellsEmitted' = cells
                             ELSE UNCHANGED <<walls, genCellsEmitted>>
    /\ UNCHANGED <<startPos, targetPos, run, size, hasSink, appVars, passages, genAlgorithm, genPc,
                   genWalls, regions, timers, genResult>>

PrimsFinish ==
    /\ genPc = "loop"
    /\ genAlgorithm = "prims"
    /\ frontierCells = << >>
    /\ genWalls' = Cells \ genVisited
    /\ walls' = Cells \ genVisited
    /\ genCellsEmitted' = {GenerationComplete}
    /\ genResult' = PrimsResult(Cells \ genVisited, generationSteps, genVisited)
    /\ genPc' = "done"
    /\ UNCHANGED <<startPos, targetPos, run, size, hasSink, appVars, passages, genAlgorithm,
                   genVisited, frontierCells, mazeGenerationCells,
                   generationSteps, regions, timers>>

(***************************************************************************)
(* generateMazeWithRecursiveDivision.  regions holds what the awaits have  *)
(* still to run, first to run first: a recursiveDivide call, or the rest   *)
(* of a createWall after its sleep.  x is a column and y a row.            *)
(***************************************************************************)
BorderCells ==
    {c \in Cells : c[1] = 0 \/ c[1] = size - 1 \/ c[2] = 0 \/ c[2] = size - 1}

Divide(x, y, width, height, horizontal) ==
    [kind |-> "divide", x |-> x, y |-> y, width |-> width, height |-> height,
     horizontal |-> horizontal]

AfterSleep(newWallCells) == [kind |-> "afterSleep", cells |-> newWallCells]

WallTimeout(newWallCells) == [kind |-> "wall", cells |-> newWallCells]

ClearTimeout == [kind |-> "clear", cells |-> {}]

\* Math.floor(Math.random() * n): the values it can take
RandomBelow(n) == IF n > 0 THEN 0 .. (n - 1) ELSE {0}

\* the base case alone, without the test of the axis being divided
DivisibleFromTwo(r) ==
    /\ r.width >= 2
    /\ r.height >= 2

\* if (width < 2 || height < 2) return; if (height < 3) return; / if (width < 3) return;
Divisible(r) ==
    /\ r.width >= 2
    /\ r.height >= 2
    /\ IF r.horizontal THEN r.height >= 3 ELSE r.width >= 3

\* a horizontal line that leaves no passage
HorizontalWallWithoutPassage(startCol0, wallRow, width, passageCol) ==
    {posStr(wallRow, col) : col \in startCol0 .. (startCol0 + width - 1)}

\* createHorizontalWall: newWallCells
HorizontalWall(startCol0, wallRow, width, passageCol) ==
    {posStr(wallRow, col) : col \in (startCol0 .. (startCol0 + width - 1)) \ {passageCol}}

\* createVerticalWall: newWallCells
VerticalWall(wallCol, startRow0, height, passageRow) ==
    {posStr(row, wallCol) : row \in (startRow0 .. (startRow0 + height - 1)) \ {passageRow}}

\* the timeout callback emitting the set without deleting newWallCells
KeepWallCells(cells, newWallCells) == cells

\* newWallCells.forEach(cell => mazeGenerationCells.delete(cell))
DeleteWallCells(cells, newWallCells) == cells \ newWallCells

DivisionResult(wallSet, steps) ==
    [returned |-> TRUE, thrown |-> FALSE, walls |-> wallSet,
     generationSteps |-> steps,
     visitedCells |-> size * size - Cardinality(wallSet)]

BeginDivision ==
    /\ genAlgorithm' = "recursive"
    /\ genWalls' = BorderCells
    /\ mazeGenerationCells' = {}
    /\ generationSteps' = 0
    /\ IF hasSink
       THEN /\ walls' = BorderCells
            /\ genCellsEmitted' = {}
            /\ regions' = <<Divide(1, 1, size - 2, size - 2, TRUE)>>
            /\ genPc' = "loop"
            /\ UNCHANGED genResult
       ELSE /\ regions' = << >>
            /\ genPc' = "thrown"
            /\ genResult' = Thrown
            /\ UNCHANGED <<walls, genCellsEmitted>>
    /\ passages' = {}
    /\ UNCHANGED <<genVisited, frontierCells, timers>>

StartDivision ==
    /\ genPc = "idle"
    /\ BeginDivision
    /\ UNCHANGED <<startPos, targetPos, run, size, hasSink, appVars>>

\* A wall is added to walls and mazeGenerationCells, and both are emitted.
AddWall(newWallCells, passage, next) ==
    /\ passages' = passages \cup {passage}
    /\ genWalls' = genWalls \cup newWallCells
    /\ walls' = genWalls \cup newWallCells
    /\ mazeGenerationCells' = mazeGenerationCells \cup newWallCells
    /\ genCellsEmitted' = mazeGenerationCells \cup newWallCells
    /\ generationSteps' = generationSteps + 1
    /\ regions' = <<AfterSleep(newWallCells)>> \o next \o Tail(regions)

\* recursiveDivide on a region it divides, up to the sleep of createWall
recursiveDivide ==
    /\ genPc = "loop"
    /\ genAlgorithm = "recursive"
    /\ regions # << >>
    /\ Head(regions).kind = "divide"
    /\ Divisible(Head(regions))
    /\ LET r == Head(regions)
       IN  IF r.horizontal
           THEN \E offset \in RandomBelow(r.height - 2),
                   passage \in RandomBelow(r.width) :
                   LET wallY == r.y + 1 + offset
                       passageX == r.x + passage
                   IN
                   AddWall(HorizontalWall(r.x, wallY, r.width, passageX),
                           posStr(wallY, passageX),
                           <<Divide(r.x, r.y, r.width, wallY - r.y, FALSE),
                             Divide(r.x, wallY + 1, r.width,
                                    r.height - (wallY - r.y + 1), FALSE)>>)
           ELSE \E offset \in RandomBelow(r.width - 2),
                   passage \in RandomBelow(r.height) :
                   LET wallX == r.x + 1 + offset
                       passageY == r.y + passage
                   IN
                   AddWall(VerticalWall(wallX, r.y, r.height, passageY),
                           posStr(passageY, wallX),
                           <<Divide(r.x, r.y, wallX - r.x, r.height, TRUE),
                             Divide(wallX + 1, r.y, r.width - (wallX - r.x + 1),
                                    r.height, TRUE)>>)
    /\ UNCHANGED <<startPos, targetPos, run, size, hasSink, appVars, genAlgorithm, genPc,
                   genVisited, frontierCells, timers, genResult>>

\* recursiveDivide on a region it returns from at once
LeaveUndivided ==
    /\ genPc = "loop"
    /\ genAlgorithm = "recursive"
    /\ regions # << >>
    /\ Head(regions).kind = "divide"
    /\ ~Divisible(Head(regions))
    /\ regions' = Tail(regions)
    /\ UNCHANGED <<grid, run, size, hasSink, appVars, passages, genAlgorithm, genPc, genWalls,
                   genVisited, frontierCells, mazeGenerationCells,
                   generationSteps, timers, genCellsEmitted, genResult>>

\* createWall after its sleep: setTimeout(..., animationSpeed * 2)
SetWallTimeout ==
    /\ genPc = "loop"
    /\ genAlgorithm = "recursive"
    /\ regions # << >>
    /\ Head(regions).kind = "afterSleep"
    /\ timers' = timers \cup {WallTimeout(Head(regions).cells)}
    /\ regions' = Tail(regions)
    /\ UNCHANGED <<grid, run, size, hasSink, appVars, passages, genAlgorithm, genPc, genWalls,
                   genVisited, frontierCells, mazeGenerationCells,
                   generationSteps, genCellsEmitted, genResult>>

\* after the outermost recursiveDivide: setTimeout(..., 1500) and return
DivisionFinish ==
    /\ genPc = "loop"
    /\ genAlgorithm = "recursive"
    /\ regions = << >>
    /\ timers' = timers \cup {ClearTimeout}
    /\ genResult' = DivisionResult(genWalls, generationSteps)
    /\ genPc' = "done"
    /\ UNCHANGED <<grid, run, size, hasSink, appVars, passages, genAlgorithm, genWalls, genVisited,
                   frontierCells, mazeGenerationCells, generationSteps, regions,
                   genCellsEmitted>>

\* a createWall timeout fires
WallTimer ==
    \E t \in timers :
       /\ t.kind = "wall"
       /\ mazeGenerationCells' = DeleteWallCells(mazeGenerationCells, t.cells)
       /\ genCellsEmitted' = DeleteWallCells(mazeGenerationCells, t.cells)
       /\ timers' = timers \ {t}
       /\ UNCHANGED <<grid, run, size, hasSink, appVars, passages, genAlgorithm, genPc, genWalls,
                      genVisited, frontierCells, generationSteps, regions,
                      genResult>>

\* the timeout set on completion fires: updateMazeGeneration(new Set())
ClearTimer ==
    /\ ClearTimeout \in timers
    /\ genCellsEmitted' = {}
    /\ timers' = timers \ {ClearTimeout}
    /\ UNCHANGED <<grid, run, size, hasSink, appVars, passages, genAlgorithm, genPc, genWalls,
                   genVisited, frontierCells, mazeGenerationCells,
                   generationSteps, regions, genResult>>

InitGenerate ==
    /\ size \in 3 .. MaxMazeSize
    /\ hasSink = TRUE
    /\ walls = {}
    /\ startPos = <<startRow, startCol>>
    /\ targetPos = <<startRow, startCol>>
    /\ NoRun

NextGenerate ==
    \/ StartPrims
    \/ PrimsLoop
    \/ PrimsFinish
    \/ StartDivision
    \/ recursiveDivide
    \/ LeaveUndivided
    \/ SetWallTimeout
    \/ DivisionFinish
    \/ WallTimer
    \/ ClearTimer

SpecGenerate == InitGenerate /\ [][NextGenerate]_vars

(***************************************************************************)
(* What the claims about generated mazes are stated with.                  *)
(***************************************************************************)
GenReturned(g) == genAlgorithm = g /\ genPc = "done" /\ genResult # NoResult

\* The cells a returned wall set leaves out.
Carved == Cells \ genResult.walls

\* The cells of set that a walk of 4-adjacent cells of set reaches from front.
RECURSIVE Flood(_, _, _)
Flood(set, seen, front) ==
    IF front = {} THEN seen
    ELSE LET next == {c \in set \ (seen \cup front) :
                         \E f \in front : Adjacent(c, f)}
         IN  Flood(set, seen \cup front, next)

Connected(set) ==
    set = {} \/ Flood(set, {}, {CHOOSE c \in set : TRUE}) = set

Before(a, b) == a[1] < b[1] \/ (a[1] = b[1] /\ a[2] < b[2])

AdjacentPairs(set) ==
    {p \in set \X set : Before(p[1], p[2]) /\ Adjacent(p[1], p[2])}

\* C12: for odd N >= 5 the cells generateMazeWithPrims leaves out of the wall
\* set are one 4-connected component with (carved cells - 1) adjacent pairs.
C12_PrimsCarvesTree ==
    (GenReturned("prims") /\ size >= 5 /\ size % 2 = 1) =>
        /\ Connected(Carved)
        /\ Cardinality(AdjacentPairs(Carved)) = Cardinality(Carved) - 1

C12_Witness ==
    /\ GenReturned("prims")
    /\ size = 7
    /\ Cardinality(Carved) = 17
    /\ genResult.generationSteps = 8

\* C13 as stated: for N >= 5 the wall set generateMazeWithRecursiveDivision
\* returns leaves all non-wall cells in one 4-connected component.
C13_DivisionConnected ==
    (GenReturned("recursive") /\ size >= 5) => Connected(Carved)

\* C15: once a generator has returned and no timeout of the run is pending,
\* the last updateMazeGeneration call carried the empty set or the set
\* {'generation_complete'}.
C15_LastEmissionCleared ==
    (genPc = "done" /\ timers = {}) =>
        genCellsEmitted \in {{}, {GenerationComplete}}

C15_Witness ==
    /\ GenReturned("recursive")
    /\ timers = {}
    /\ size >= 6
    /\ genResult.generationSteps >= 2
    /\ genCellsEmitted = {}

\* C16 as stated: on grids of size 3 and 4 both generators return exactly the
\* border cells as the wall set.
C16_SmallGridBorderOnly ==
    (genPc = "done" /\ size \in {3, 4}) =>
        /\ genResult.returned
        /\ genResult.walls = BorderCells

(***************************************************************************)
(* Headless runs: the traversals and the generators called with their      *)
(* callbacks undefined, next to runs that are given them.  One behaviour   *)
(* makes either traversal runs or one generator run, on the example grids. *)
(***************************************************************************)
InitHeadless ==
    /\ size = 5
    /\ hasSink \in BOOLEAN
    /\ walls \in {{}, ExampleWalls}
    /\ startPos = <<0, 0>>
    /\ targetPos = IF walls = {} THEN <<4, 4>> ELSE <<0, 4>>
    /\ NoRun

NextHeadless ==
    \/ genPc = "idle" /\ StartBFS
    \/ BFSLoop
    \/ StartDFS
    \/ DFSLoop
    \/ StartTopDown
    \/ TopDownLoop
    \/ StartDijkstra
    \/ DijkstraLoop
    \/ Reconstruct
    \/ PathStep
    \/ Return
    \/ algorithm = "none" /\ StartPrims
    \/ PrimsLoop
    \/ PrimsFinish
    \/ algorithm = "none" /\ StartDivision
    \/ recursiveDivide
    \/ LeaveUndivided
    \/ SetWallTimeout
    \/ DivisionFinish
    \/ WallTimer
    \/ ClearTimer

SpecHeadless == InitHeadless /\ [][NextHeadless]_vars

\* C20 as stated: called with undefined callbacks, no traversal and no
\* generator throws.
C20_NoSinkNoError ==
    ~hasSink =>
        /\ genResult # Thrown
        /\ \A a \in AlgorithmSet : results[a] # Thrown

(***************************************************************************)
(* The App: its editing handlers, generateMaze and runAlgorithm, with the  *)
(* runs they start.  GRID_SIZE is 45 in the source and the target starts   *)
(* at (15,25); the model explores a smaller grid, the target starting one  *)
(* cell inside the far corner.  A handler reads the state of the latest    *)
(* render.  visitedCells and pathCells only mirror the callbacks and are   *)
(* not kept.                                                               *)
(***************************************************************************)
GRID_SIZE == 5

\* The most handler invocations of one behaviour.
MaxEvents == 3

\* isGeneratingMaze alone, where the handlers test both flags
BusyGenerating == isGeneratingMaze

\* isVisualizing || isGeneratingMaze
Busy == isVisualizing \/ isGeneratingMaze

\* A handler is invoked: the invocation is recorded, whatever it then does.
Invoked(handler) ==
    /\ events < MaxEvents
    /\ events' = events + 1
    /\ lastEvent' = handler

handleCellClick(row, col) ==
    /\ Invoked("handleCellClick")
    /\ IF Busy \/ <<row, col>> = startPos \/ <<row, col>> = targetPos
       THEN UNCHANGED walls
       ELSE walls' = IF posStr(row, col) \in walls
                     THEN walls \ {posStr(row, col)}
                     ELSE walls \cup {posStr(row, col)}
    /\ UNCHANGED <<startPos, targetPos, run, size, hasSink, genVars,
                   isVisualizing, isGeneratingMaze, dragMode>>

handleMouseDown(row, col) ==
    /\ Invoked("handleMouseDown")
    /\ dragMode' = IF Busy THEN dragMode
                   ELSE IF <<row, col>> = startPos THEN "start"
                   ELSE IF <<row, col>> = targetPos THEN "target"
                   ELSE dragMode
    /\ UNCHANGED <<grid, run, size, hasSink, genVars, isVisualizing,
                   isGeneratingMaze>>

\* the drag refused only while a maze is generated, not during a traversal
handleMouseEnterWhileVisualizing(row, col) ==
    /\ Invoked("handleMouseEnter")
    /\ IF dragMode = "null" \/ BusyGenerating
       THEN UNCHANGED grid
       ELSE /\ walls' = walls \ {posStr(row, col)}
            /\ startPos' = IF dragMode = "start" THEN <<row, col>> ELSE startPos
            /\ targetPos' = IF dragMode = "target" THEN <<row, col>> ELSE targetPos
    /\ UNCHANGED <<run, size, hasSink, genVars, isVisualizing,
                   isGeneratingMaze, dragMode>>

handleMouseEnter(row, col) ==
    /\ Invoked("handleMouseEnter")
    /\ IF dragMode = "null" \/ Busy
       THEN UNCHANGED grid
       ELSE /\ walls' = walls \ {posStr(row, col)}
            /\ startPos' = IF dragMode = "start" THEN <<row, col>> ELSE startPos
            /\ targetPos' = IF dragMode = "target" THEN <<row, col>> ELSE targetPos
    /\ UNCHANGED <<run, size, hasSink, genVars, isVisualizing,
                   isGeneratingMaze, dragMode>>

handleMouseUp ==
    /\ Invoked("handleMouseUp")
    /\ dragMode' = "null"
    /\ UNCHANGED <<grid, run, size, hasSink, genVars, isVisualizing,
                   isGeneratingMaze>>

clearWalls ==
    /\ Invoked("clearWalls")
    /\ IF Busy
       THEN UNCHANGED <<walls, genCellsEmitted>>
       ELSE /\ walls' = {}
            /\ genCellsEmitted' = {}
    /\ UNCHANGED <<startPos, targetPos, run, size, hasSink, genAlgorithm, genPc,
                   genWalls, genVisited, frontierCells, mazeGenerationCells,
                   generationSteps, regions, timers, genResult, passages,
                   isVisualizing,
                   isGeneratingMaze, dragMode>>

\* generateMaze up to the first await of the generator it calls
generateMaze ==
    /\ Invoked("generateMaze")
    /\ IF Busy
       THEN UNCHANGED <<walls, genVars, isGeneratingMaze>>
       ELSE /\ isGeneratingMaze' = TRUE
            /\ \/ BeginPrims
               \/ BeginDivision
    /\ UNCHANGED <<startPos, targetPos, run, size, hasSink, isVisualizing,
                   dragMode>>

\* generateMaze after the generator has returned or thrown: finally
generateMazeFinally ==
    /\ isGeneratingMaze
    /\ genPc \in {"done", "thrown"}
    /\ isGeneratingMaze' = FALSE
    /\ UNCHANGED <<grid, run, size, hasSink, genVars, isVisualizing, dragMode,
                   lastEvent, events>>

\* runAlgorithm up to the first await of the traversal it calls; 'depth-first'
\* is the depthFirstSearch of dfsTopDown
runAlgorithm ==
    /\ Invoked("runAlgorithm")
    /\ IF Busy
       THEN UNCHANGED <<grid, run, isVisualizing>>
       ELSE /\ isVisualizing' = TRUE
            /\ \/ BeginBFS
               \/ BeginTopDown
               \/ BeginDijkstra
    /\ UNCHANGED <<size, hasSink, genVars, isGeneratingMaze, dragMode>>

\* runAlgorithm after the traversal has returned or thrown: finally
runAlgorithmFinally ==
    /\ isVisualizing
    /\ pc = "done"
    /\ isVisualizing' = FALSE
    /\ UNCHANGED <<grid, run, size, hasSink, genVars, isGeneratingMaze,
                   dragMode, lastEvent, events>>

InitApp ==
    /\ size = GRID_SIZE
    /\ hasSink = TRUE
    /\ walls = {}
    /\ startPos = <<1, 1>>
    /\ targetPos = <<size - 2, size - 2>>
    /\ NoRun

NextApp ==
    \/ \E row \in Rows, col \in Rows : handleCellClick(row, col)
    \/ \E row \in Rows, col \in Rows : handleMouseDown(row, col)
    \/ \E row \in Rows, col \in Rows : handleMouseEnter(row, col)
    \/ handleMouseUp
    \/ clearWalls
    \/ generateMaze
    \/ PrimsLoop
    \/ PrimsFinish
    \/ recursiveDivide
    \/ LeaveUndivided
    \/ SetWallTimeout
    \/ DivisionFinish
    \/ WallTimer
    \/ ClearTimer
    \/ generateMazeFinally
    \/ runAlgorithm
    \/ BFSLoop
    \/ TopDownLoop
    \/ DijkstraLoop
    \/ Reconstruct
    \/ PathStep
    \/ Return
    \/ runAlgorithmFinally

SpecApp == InitApp /\ [][NextApp]_vars

(***************************************************************************)
(* What the claims about the App are stated with.                          *)
(***************************************************************************)
\* The generator has returned to generateMaze, whose finally has yet to run:
\* the wall set it installed is the App's wall set.
GenerationCompleted == isGeneratingMaze /\ genPc = "done"

\* A handler was invoked in this step.
Handled(handler) == events' = events + 1 /\ lastEvent' = handler

\* C14 as stated: when a generation run of the App completes, start and
\* target are outside the installed wall set and target is reachable from
\* start through non-wall cells.
C14_EndpointsOpenAfterGeneration ==
    GenerationCompleted =>
        /\ startPosStr \notin walls
        /\ targetPosStr \notin walls
        /\ TargetReachable

\* C17: isVisualizing and isGeneratingMaze are never both true, and a
\* runAlgorithm or generateMaze request made while either is true starts no
\* run and changes no state of the App, of a traversal or of a generator.
C17_OneRunInFlight ==
    [][/\ ~(isVisualizing' /\ isGeneratingMaze')
       /\ ((isVisualizing \/ isGeneratingMaze)
           /\ (Handled("runAlgorithm") \/ Handled("generateMaze")))
          => UNCHANGED <<grid, run, size, hasSink, genVars, isVisualizing,
                         isGeneratingMaze, dragMode>>]_vars

C17_Witness ==
    /\ isVisualizing
    /\ pc = "loop"
    /\ lastEvent = "generateMaze"
    /\ genAlgorithm = "none"
    /\ visitedCount > 0

\* C18: from the start of a traversal run until isVisualizing is cleared, no
\* step (a cell click, a mouse-down, a drag over a cell, clear grid) changes
\* the wall set, the start cell or the target cell.
C18_GridFixedWhileVisualizing ==
    [][isVisualizing => UNCHANGED grid]_vars

C18_Witness ==
    /\ isVisualizing
    /\ pc = "loop"
    /\ dragMode = "start"
    /\ lastEvent = "handleMouseEnter"

\* C19 as stated: after any sequence of editing actions (no maze generated),
\* start and target are distinct in-bounds cells outside the wall set.
C19_EndpointsDistinctAndOpen ==
    genAlgorithm = "none" =>
        /\ startPos # targetPos
        /\ startPosStr \in Cells
        /\ targetPosStr \in Cells
        /\ startPosStr \notin walls
        /\ targetPosStr \notin walls

\* A timeout callback of the generator runs in this step: it calls
\* updateMazeGeneration.
TimeoutFires == timers' # timers /\ timers' \subseteq timers

\* C21 as stated: once a generation run has returned and the App has cleared
\* isGeneratingMaze, no callback of that run is invoked.
C21_NoCallbackAfterRun ==
    [][(genAlgorithm # "none" /\ ~isGeneratingMaze) => ~TimeoutFires]_vars

(***************************************************************************)
(* What the claims about the order of a traversal are stated with.         *)
(***************************************************************************)
Down == <<1, 0>>
Up == <<0 - 1, 0>>
Right == <<0, 1>>
Left == <<0, 0 - 1>>

PlainPriority == <<Down, Right, Left, Up>>
TopDownPriority == <<Down, Up, Right, Left>>

\* The in-bounds non-wall neighbours of cell outside done, in the given order.
Candidates(cell, order, done) ==
    SelectSeq([i \in 1 .. Len(order) |->
                  <<cell[1] + order[i][1], cell[2] + order[i][2]>>],
              LAMBDA k : k \in Cells /\ k \notin walls /\ k \notin done)

\* The entry of stack nearest its top that is outside done.
RECURSIVE TopOutside(_, _)
TopOutside(stack, done) ==
    IF stack = << >> THEN Null
    ELSE IF stack[Len(stack)] \notin done THEN stack[Len(stack)]
    ELSE TopOutside(SubSeq(stack, 1, Len(stack) - 1), done)

Last(s) == s[Len(s)]

\* C22: in both depth-first searches, the cell expanded after a cell is that
\* cell's first non-wall, not yet expanded in-bounds neighbour in the order
\* down, right, left, up (plain) or down, up, right, left (top-down); when it
\* has none, it is the not yet expanded cell nearest the top of the stack.
C22_DepthFirstOrder ==
    [][(/\ algorithm \in {"depth-first", "depth-first-top-down"}
        /\ pc = "loop"
        /\ expanded # << >>
        /\ Len(expanded') = Len(expanded) + 1)
       => LET priority == IF algorithm = "depth-first"
                          THEN PlainPriority ELSE TopDownPriority
              candidates == Candidates(Last(expanded), priority, Range(expanded))
          IN  Last(expanded') =
                  IF candidates # << >> THEN candidates[1]
                  ELSE TopOutside(frontier, Range(expanded))]_vars

C22_Witness ==
    /\ Finished("depth-first")
    /\ skipped > 0
    /\ \E i \in 1 .. (Len(expanded) - 1) : ~Adjacent(expanded[i], expanded[i + 1])
    /\ \E i \in 1 .. (Len(expanded) - 1) :
          expanded[i + 1] = <<expanded[i][1], expanded[i][2] + 1>>

\* The positions that have been given a parent.
Discovered ==
    IF algorithm = "dijkstra"
    THEN {k \in DOMAIN previous : previous[k] # Null}
    ELSE DOMAIN parent

IndexIn(s, x) == CHOOSE i \in 1 .. Len(s) : s[i] = x

ParentsLeadToStart ==
    /\ startPosStr \notin Discovered
    /\ \A k \in Discovered :
          LET p == ParentMap[k]
          IN  /\ Adjacent(p, k)
              /\ p \in Cells \ walls
              /\ p \in Range(expanded)
              /\ k \in Range(expanded) => IndexIn(expanded, p) < IndexIn(expanded, k)
              /\ WalkBack(ParentMap, k, << >>, Cardinality(Cells) + 1).outcome = "ok"
    /\ \A a \in AlgorithmSet : results[a] # Thrown

\* C23: in every traversal, after every step, start has no parent, the parent
\* of a discovered position is a 4-adjacent non-wall position expanded
\* earlier, following parents from it reaches start, and no reconstruction
\* throws; and no step of the loop changes a parent already assigned.
C23_ParentsAssignedOnce ==
    [][/\ ParentsLeadToStart'
       /\ pc = "loop" =>
             \A k \in Discovered :
                k \in Discovered' /\ ParentMap'[k] = ParentMap[k]]_vars

C23_Witness ==
    /\ Finished("depth-first-top-down")
    /\ skipped > 0
    /\ pathFound
    /\ Cardinality(Discovered) >= 4

\* The cells of a region of recursiveDivide.
RegionCells(r) ==
    {posStr(row, col) : row \in r.y .. (r.y + r.height - 1),
                        col \in r.x .. (r.x + r.width - 1)}

\* The cells of the row or column of region r at distance k from its first.
LineCells(r, k) ==
    IF r.horizontal
    THEN {posStr(r.y + k, col) : col \in r.x .. (r.x + r.width - 1)}
    ELSE {posStr(row, r.x + k) : row \in r.y .. (r.y + r.height - 1)}

\* The extent of region r along the axis it is to be divided on, and across it.
Along(r) == IF r.horizontal THEN r.height ELSE r.width

Across(r) == IF r.horizontal THEN r.width ELSE r.height

\* C24: a call of recursiveDivide places a line only in a region with at
\* least 3 cells along the axis being divided and 2 across it, on a row or
\* column strictly between the region's first and last, with one passage, and
\* recurses on two non-empty sub-regions that exclude the line; a region
\* failing the test for its orientation gets no line and no sub-region.
C24_LineStrictlyInside ==
    [][/\ (genAlgorithm = "recursive" /\ genWalls' # genWalls)
          => (regions' # regions /\ generationSteps' # generationSteps)
       /\ (/\ genAlgorithm = "recursive" /\ genPc = "loop"
           /\ regions # << >> /\ Head(regions).kind = "divide"
           /\ regions' # regions)
          => LET r == Head(regions)
             IN  IF generationSteps' # generationSteps
                 THEN /\ Along(r) >= 3
                      /\ Across(r) >= 2
                      /\ \E k \in 1 .. (Along(r) - 2) :
                            /\ genWalls' \ genWalls \subseteq LineCells(r, k)
                            /\ Cardinality(LineCells(r, k) \ genWalls') = 1
                            /\ LineCells(r, k) \ genWalls' \subseteq passages'
                            /\ LET first == regions'[2]
                                   second == regions'[3]
                               IN  /\ first.kind = "divide" /\ second.kind = "divide"
                                   /\ first.horizontal = ~r.horizontal
                                   /\ second.horizontal = ~r.horizontal
                                   /\ RegionCells(first) # {}
                                   /\ RegionCells(second) # {}
                                   /\ RegionCells(first) \cap RegionCells(second) = {}
                                   /\ RegionCells(first) \cup RegionCells(second)
                                         = RegionCells(r) \ LineCells(r, k)
                 ELSE /\ Along(r) < 3 \/ Across(r) < 2
                      /\ genWalls' = genWalls
                      /\ regions' = Tail(regions)]_vars

\* A region about to be left undivided although it could be split along the
\* other axis, after lines have been placed.
C24_Witness ==
    /\ genAlgorithm = "recursive" /\ genPc = "loop"
    /\ generationSteps >= 2
    /\ regions # << >> /\ Head(regions).kind = "divide"
    /\ Along(Head(regions)) < 3
    /\ Across(Head(regions)) >= 3
    /\ Along(Head(regions)) >= 2

\* C25: during recursive division every set given to updateWalls contains the
\* border and the set given before it, and no passage left open in a line is
\* in the wall set.
C25_WallsOnlyGrow ==
    [][genAlgorithm' = "recursive"
       => /\ walls' # walls => BorderCells \subseteq walls'
          /\ (genAlgorithm = "recursive" /\ walls' # walls) => walls \subseteq walls'
          /\ passages' \cap genWalls' = {}
          /\ passages' \cap walls' = {}]_vars

C25_Witness ==
    /\ genAlgorithm = "recursive" /\ genPc = "done"
    /\ Cardinality(passages) >= 3
    /\ walls = genWalls
    /\ Cardinality(walls \ BorderCells) >= 4

\* What breadthFirstSearch did on this grid, kept from its run.
BFSObserved == observed["breadth-first"]

\* C26: with start # target, dijkstra removes positions from its frontier in
\* the order breadthFirstSearch dequeued them on the same input, returns the
\* same visitedCount and the same path, and its updateVisited calls are those
\* of breadthFirstSearch followed by target when a path is found.
C26_DijkstraOrderIsBFS ==
    (algorithm = "dijkstra" /\ startPos # targetPos) =>
        /\ IsPrefix(expanded, BFSObserved.expanded)
        /\ Finished("dijkstra") =>
              /\ expanded = BFSObserved.expanded
              /\ results["dijkstra"].returned
              /\ BFSResult.returned
              /\ results["dijkstra"].visitedCount = BFSResult.visitedCount
              /\ results["dijkstra"].path = BFSResult.path
              /\ visitedCalls = IF results["dijkstra"].pathFound
                                THEN Append(BFSObserved.visitedCalls, targetPos)
                                ELSE BFSObserved.visitedCalls

C26_Witness ==
    /\ Finished("dijkstra")
    /\ startPos # targetPos
    /\ walls # {}
    /\ results["dijkstra"].pathFound
    /\ results["dijkstra"].pathLength > Manhattan
    /\ Len(expanded) >= 5
    /\ expanded = BFSObserved.expanded

FrontierPositions == [i \in 1 .. Len(frontier) |-> frontier[i].pos]

\* C27: in dijkstra no position is in the priority queue twice or again after
\* it was removed, a distance and predecessor once recorded are not changed,
\* and the branch skipping an already visited position is never taken.
C27_DijkstraInsertsOnce ==
    [][algorithm' = "dijkstra" =>
          /\ skipped' = 0
          /\ pc' = "loop" =>
                /\ NoRepeat(FrontierPositions')
                /\ Range(FrontierPositions') \cap visited' = {}
          /\ (algorithm = "dijkstra" /\ pc = "loop") =>
                \A k \in DOMAIN previous :
                   distances[k] # Infinity =>
                      /\ distances'[k] = distances[k]
                      /\ previous'[k] = previous[k]]_vars

C27_Witness ==
    /\ Finished("dijkstra")
    /\ walls = {}
    /\ visitedCount = 9
    /\ skipped = 0
    /\ \A k \in Cells : distances[k] # Infinity

\* The cell halfway between two cells two steps apart.
Between(a, b) == <<(a[1] + b[1]) \div 2, (a[2] + b[2]) \div 2>>

\* C28: in generateMazeWithPrims the frontier holds no cell twice and no carved
\* cell, a cell enters it only while uncarved and leaves it only by being
\* carved, each iteration carves the picked cell and the cell between it and
\* a carved cell two steps away, the carved set has 1 + 2*generationSteps
\* cells at every step, and visitedCells returns that number.
C28_PrimsCarvesTwoPerStep ==
    [][(genAlgorithm' = "prims" /\ genPc' \in {"loop", "done"}) =>
          /\ NoRepeat(frontierCells')
          /\ Range(frontierCells') \cap genVisited' = {}
          /\ Cardinality(genVisited') = 1 + 2 * generationSteps'
          /\ genPc' = "done" =>
                genResult'.visitedCells = 1 + 2 * genResult'.generationSteps
          /\ (genAlgorithm = "prims" /\ frontierCells' # frontierCells) =>
                /\ generationSteps' = generationSteps + 1
                /\ Range(frontierCells') \cap genVisited = {}
                /\ \E c \in Range(frontierCells) \ genVisited :
                      /\ Range(frontierCells) \ Range(frontierCells') = {c}
                      /\ \E n \in Range(TwoSteps(c[1], c[2])) \cap genVisited :
                            /\ Between(c, n) \notin genVisited
                            /\ genVisited' = genVisited \cup {c, Between(c, n)}]_vars

C28_Witness ==
    /\ genAlgorithm = "prims" /\ genPc = "loop"
    /\ size = 7
    /\ generationSteps = 5
    /\ Len(frontierCells) >= 2
    /\ Cardinality(genVisited) = 11

\* The non-wall cells 4-connected to start, start included.
StartComponent == Flood(Cells \ walls, {}, {startPosStr})

\* C29: when target is unreachable from start, every traversal returns as
\* visitedCount the number of non-wall cells 4-connected to start, and has
\* called updateVisited exactly once for each of them other than start.
C29_UnreachableVisitsComponent ==
    \A a \in AlgorithmSet :
        (Finished(a) /\ ValidEndpoints /\ ~TargetReachable) =>
            /\ results[a].returned
            /\ results[a].visitedCount = Cardinality(StartComponent)
            /\ NoRepeat(visitedCalls)
            /\ Range(visitedCalls) = StartComponent \ {startPos}
            /\ \A b \in AlgorithmSet :
                  Ran(b) => results[b].visitedCount = results[a].visitedCount

C29_Witness ==
    /\ Finished("dijkstra")
    /\ ~TargetReachable
    /\ Cardinality(StartComponent) >= 5
    /\ Len(visitedCalls) = Cardinality(StartComponent) - 1
    /\ \A a \in AlgorithmSet : results[a].visitedCount = Cardinality(StartComponent)

(***************************************************************************)
(* Runs under fair scheduling.  Every iteration of a traversal or of a     *)
(* generator ends in an await of a timer (delay, sleep, setTimeout), and   *)
(* the continuation runs when the timer fires; a timer that is set fires.  *)
(* Starting a run is the caller's choice and is under no fairness.  One    *)
(* behaviour makes either traversal runs or one generator run: on the      *)
(* smallest grid with few walls and any endpoints, or on a larger empty    *)
(* grid with the endpoints one cell inside opposite corners.               *)
(***************************************************************************)
InitLive ==
    /\ hasSink = TRUE
    /\ \/ /\ size = gridSize
          /\ walls \in FewWalls
          /\ startPos \in Cells \ walls
          /\ targetPos \in Cells \ walls
       \/ /\ size \in (gridSize + 1) .. GRID_SIZE
          /\ walls = {}
          /\ startPos = <<startRow, startCol>>
          /\ targetPos = <<size - 2, size - 2>>
    /\ NoRun

TraversalStep ==
    BFSLoop \/ DFSLoop \/ TopDownLoop \/ DijkstraLoop \/ Reconstruct
        \/ PathStep \/ Return

GeneratorStep ==
    PrimsLoop \/ PrimsFinish \/ recursiveDivide \/ LeaveUndivided
        \/ SetWallTimeout \/ DivisionFinish

TimerStep == WallTimer \/ ClearTimer

SpecLive ==
    /\ InitLive
    /\ [][NextHeadless]_vars
    /\ WF_vars(TraversalStep)
    /\ WF_vars(GeneratorStep)
    /\ WF_vars(TimerStep)

Area(r) == r.width * r.height

\* C30: under fair scheduling every traversal and every generator that has
\* started returns; a traversal expands no position twice, an iteration of
\* Prim's generation carves only cells not carved before, and a call of
\* recursiveDivide recurses only into regions smaller than its own.
C30_EveryRunReturns ==
    /\ (pc \in {"loop", "reconstruct", "path", "return"})
          ~> (pc = "done" /\ results[algorithm].returned)
    /\ (genPc = "loop") ~> (genPc = "done" /\ genResult.returned)
    /\ [](NoRepeat(expanded))
    /\ [][/\ (genAlgorithm = "prims" /\ genVisited' # genVisited) =>
                /\ genVisited \subseteq genVisited'
                /\ Cardinality(genVisited') = Cardinality(genVisited) + 2
          /\ (/\ genAlgorithm = "recursive" /\ genPc = "loop"
              /\ generationSteps' # generationSteps) =>
                /\ Area(regions'[2]) < Area(Head(regions))
                /\ Area(regions'[3]) < Area(Head(regions))]_vars

C30_Witness ==
    \/ /\ Finished("dijkstra")
       /\ \A a \in AlgorithmSet : results[a].returned
       /\ observed["depth-first"].expanded # observed["breadth-first"].expanded
       /\ Len(expanded) >= 8
    \/ /\ genPc = "done" /\ genResult.returned
       /\ size = GRID_SIZE
       /\ generationSteps >= 3
       /\ timers = {}

====
